---------------------------- MODULE Spec2Model ----------------------------
(***************************************************************************)
(* Model of src/src/controllers/bookController.js: the book catalogue and  *)
(* the borrow/return workflow over the Book and Borrow collections.        *)
(*                                                                         *)
(* The store is the pair (books, borrows).  A Book document carries the    *)
(* fields the workflow reads and writes (totalCopies, availableCopies,     *)
(* status, borrower, borrowedAt, dueDate); title, author, category, isbn   *)
(* and the cover image are abstracted to the one input bit of addBook that *)
(* says whether the required text fields are all present.  Times are in   *)
(* whole seconds: 1000 ms of the source's Date arithmetic is one unit, so  *)
(* that seventeen days and more fit the model checker's integers.          *)
(*                                                                         *)
(* Three specifications share the state:                                   *)
(*   Spec      every handler runs to completion before the next request;   *)
(*   SpecABR   the same, restricted to addBook, borrowBook and returnBook; *)
(*   SpecConc  borrowBook and returnBook split at their awaits, so that    *)
(*             the store reads and writes of two requests interleave.      *)
(***************************************************************************)
EXTENDS Integers, Sequences, FiniteSets, TLC

VARIABLES
    books,      \* Book collection: book _id -> document
    nextBook,   \* the next fresh book _id (ObjectIds are never reused)
    borrows,    \* Borrow collection, in insertion order; the index is the _id
    now,        \* the wall clock read by new Date() / Date.now(), in seconds
    ticks,      \* how many times the clock has advanced (bounds the model)
    last,       \* the response to the last request that ran to completion
    hist,       \* per book: the last successful borrow and whether its borrower has
                \* returned it, while no other request has named the book since
    slots       \* SpecConc: the requests whose steps interleave, one per slot

vars == <<books, nextBook, borrows, now, ticks, last, hist, slots>>

(***************************************************************************)
(* Bounds of the model.                                                    *)
(***************************************************************************)
MaxBooks == 1
MaxCopies == 2
MaxBorrows == 2
MaxTicks == 2
MaxSlots == 2

(***************************************************************************)
(* Program constants.                                                      *)
(***************************************************************************)
DaySec == 86400
BorrowDays == 7
FinePerDay == 5
NullDate == -1
Absent == -1

Users == {"u1", "u2"}
Null == "null"
BookIds == 1..MaxBooks
CopyInputs == (0..MaxCopies) \cup {Absent}
Deltas == {1, DaySec, BorrowDays * DaySec, 10 * DaySec}

MsgRequired == "All fields except image and description are required"
MsgNotFound == "Book not found"
MsgDeleted == "Book deleted successfully"
MsgUnavailable == "Book is currently unavailable"
MsgAlready == "You have already borrowed this book"
MsgBorrowed == "Book borrowed successfully"
MsgNotBorrower == "You did not borrow this book"
MsgReturned == "Book returned successfully"
MsgTypeError == "Cannot read properties of null (reading '_id')"
MsgOk == "ok"

(***************************************************************************)
(* Pure parts of the handlers.                                             *)
(***************************************************************************)

\* faulty variant of Ceil: rounds the days late down
CeilFloor(a, b) == a \div b

\* Math.ceil(a / b) for a > 0, b > 0
Ceil(a, b) == (a + b - 1) \div b

\* the Book schema's defaults for the fields addBook does not supply
BookDefaults ==
    [ status |-> "Available", borrower |-> Null,
      borrowedAt |-> NullDate, dueDate |-> NullDate ]

\* the Borrow schema's defaults for the fields borrowBook does not supply
BorrowDefaults == [ returnedAt |-> NullDate, fine |-> 0 ]

\* the document addBook builds and saves: availableCopies || totalCopies
NewBook(availableCopies, totalCopies) ==
    [ totalCopies     |-> totalCopies,
      availableCopies |-> IF availableCopies = Absent \/ availableCopies = 0
                          THEN totalCopies ELSE availableCopies,
      status          |-> BookDefaults.status,
      borrower        |-> BookDefaults.borrower,
      borrowedAt      |-> BookDefaults.borrowedAt,
      dueDate         |-> BookDefaults.dueDate ]

\* addBook's validation: !title || !author || !category || !isbn || !totalCopies
AddRejected(fields, totalCopies) ==
    ~fields \/ totalCopies = Absent \/ totalCopies = 0

\* updateBook's assignments: availableCopies ?? old, totalCopies ?? old
UpdatedBook(book, availableCopies, totalCopies) ==
    [ book EXCEPT
        !.availableCopies = IF availableCopies = Absent THEN @ ELSE availableCopies,
        !.totalCopies     = IF totalCopies = Absent THEN @ ELSE totalCopies ]

\* faulty variant of BorrowUnavailable: ignores the copy counter
BorrowUnavailableStatusOnly(book) ==
    book.status = "Borrowed"

\* borrowBook's availability check
BorrowUnavailable(book) ==
    book.status = "Borrowed" \/ book.availableCopies = 0

\* borrowBook's check that the member already holds the book
BorrowAlready(book, u) ==
    book.borrower # Null /\ book.borrower = u

\* faulty variant of BorrowedBook: the borrower is not recorded
BorrowedBookNoBorrower(book, u, t) ==
    [ book EXCEPT
        !.status          = "Borrowed",
        !.borrowedAt      = t,
        !.dueDate         = t + BorrowDays * 24 * 60 * 60,
        !.availableCopies = @ - 1 ]

\* the Book as borrowBook saves it
BorrowedBook(book, u, t) ==
    [ book EXCEPT
        !.status          = "Borrowed",
        !.borrower        = u,
        !.borrowedAt      = t,
        !.dueDate         = t + BorrowDays * 24 * 60 * 60,
        !.availableCopies = @ - 1 ]

\* the Borrow record borrowBook creates for the book it is about to save
NewBorrow(u, b, book) ==
    [ user       |-> u,
      book       |-> b,
      borrowedAt |-> book.borrowedAt,
      dueDate    |-> book.dueDate,
      returnedAt |-> BorrowDefaults.returnedAt,
      fine       |-> BorrowDefaults.fine ]

\* faulty variant of NotBorrower: any user may return a borrowed book
NotBorrowerNullOnly(book, u) ==
    book.borrower = Null

\* returnBook's ownership check
NotBorrower(book, u) ==
    book.borrower = Null \/ book.borrower # u

\* returnBook's late fee
Fine(currentDate, dueDate) ==
    IF dueDate # NullDate /\ currentDate > dueDate
    THEN Ceil(currentDate - dueDate, DaySec) * FinePerDay
    ELSE 0

\* the records Borrow.findOne({book, user, returnedAt: null}) matches
OpenRecords(recs, b, u) ==
    { i \in DOMAIN recs :
        recs[i].book = b /\ recs[i].user = u /\ recs[i].returnedAt = NullDate }

\* the Borrow record as returnBook closes it
ClosedRecord(rec, currentDate, fine) ==
    [ rec EXCEPT !.returnedAt = currentDate, !.fine = fine ]

\* faulty variant of ReturnedBook: the copy is not given back
ReturnedBookNoIncrement(book) ==
    [ book EXCEPT
        !.status     = "Available",
        !.borrower   = Null,
        !.borrowedAt = NullDate,
        !.dueDate    = NullDate ]

\* faulty variant of ReturnedBook: the borrower is not cleared
ReturnedBookKeepsBorrower(book) ==
    [ book EXCEPT
        !.status          = "Available",
        !.borrowedAt      = NullDate,
        !.dueDate         = NullDate,
        !.availableCopies = @ + 1 ]

\* the Book as returnBook saves it
ReturnedBook(book) ==
    [ book EXCEPT
        !.status          = "Available",
        !.borrower        = Null,
        !.borrowedAt      = NullDate,
        !.dueDate         = NullDate,
        !.availableCopies = @ + 1 ]

\* Borrow.find({user}): the user's records
UserRecords(recs, u) == { i \in DOMAIN recs : recs[i].user = u }

\* getUserHistory's map: record.book._id throws when populate left book null
HistoryThrows(recs, bks, u) ==
    \E i \in UserRecords(recs, u) : recs[i].book \notin DOMAIN bks

Resp(op, u, b, code, msg, val) ==
    [ op |-> op, user |-> u, book |-> b, code |-> code, msg |-> msg, val |-> val ]

NoHist == [ user |-> Null, avail |-> 0, returned |-> FALSE ]

\* the ghost history after a request naming book b
Forget(b) == [ hist EXCEPT ![b] = NoHist ]

IdleSlot ==
    [ pc |-> "idle", op |-> "none", user |-> Null, book |-> 0,
      doc |-> NewBook(Absent, 0), rec |-> 0, currentDate |-> NullDate,
      fine |-> 0, code |-> 0, msg |-> MsgOk ]

(***************************************************************************)
(* Initial state: an empty library.                                        *)
(***************************************************************************)
Init ==
    /\ books = << >>
    /\ nextBook = 1
    /\ borrows = << >>
    /\ now = 0
    /\ ticks = 0
    /\ last = Resp("none", Null, 0, 0, MsgOk, 0)
    /\ hist = [ b \in BookIds |-> NoHist ]
    /\ slots = [ p \in 1..MaxSlots |-> IdleSlot ]

\* time passes between two reads of the clock
Tick(d) ==
    /\ ticks < MaxTicks
    /\ ticks' = ticks + 1
    /\ now' = now + d
    /\ UNCHANGED <<books, nextBook, borrows, last, hist, slots>>

(***************************************************************************)
(* The handlers, each run to completion.                                   *)
(***************************************************************************)

addBook(fields, availableCopies, totalCopies) ==
    /\ IF AddRejected(fields, totalCopies)
       THEN /\ last' = Resp("addBook", Null, 0, 400, MsgRequired, 0)
            /\ UNCHANGED <<books, nextBook>>
       ELSE /\ nextBook <= MaxBooks
            /\ books' = [ x \in DOMAIN books \cup {nextBook} |->
                            IF x = nextBook
                            THEN NewBook(availableCopies, totalCopies)
                            ELSE books[x] ]
            /\ nextBook' = nextBook + 1
            /\ last' = Resp("addBook", Null, nextBook, 201, MsgOk, 0)
    /\ UNCHANGED <<borrows, now, ticks, hist, slots>>

updateBook(b, availableCopies, totalCopies) ==
    /\ IF b \notin DOMAIN books
       THEN /\ last' = Resp("updateBook", Null, b, 404, MsgNotFound, 0)
            /\ UNCHANGED books
       ELSE /\ books' = [ books EXCEPT
                            ![b] = UpdatedBook(@, availableCopies, totalCopies) ]
            /\ last' = Resp("updateBook", Null, b, 200, MsgOk, 0)
    /\ hist' = Forget(b)
    /\ UNCHANGED <<nextBook, borrows, now, ticks, slots>>

deleteBook(b) ==
    /\ IF b \notin DOMAIN books
       THEN /\ last' = Resp("deleteBook", Null, b, 404, MsgNotFound, 0)
            /\ UNCHANGED books
       ELSE /\ books' = [ x \in DOMAIN books \ {b} |-> books[x] ]
            /\ last' = Resp("deleteBook", Null, b, 200, MsgDeleted, 0)
    /\ hist' = Forget(b)
    /\ UNCHANGED <<nextBook, borrows, now, ticks, slots>>

borrowBook(u, b) ==
    /\ IF b \notin DOMAIN books
       THEN /\ last' = Resp("borrowBook", u, b, 404, MsgNotFound, 0)
            /\ hist' = Forget(b)
            /\ UNCHANGED <<books, borrows>>
       ELSE IF BorrowUnavailable(books[b])
       THEN /\ last' = Resp("borrowBook", u, b, 400, MsgUnavailable, 0)
            /\ hist' = Forget(b)
            /\ UNCHANGED <<books, borrows>>
       ELSE IF BorrowAlready(books[b], u)
       THEN /\ last' = Resp("borrowBook", u, b, 400, MsgAlready, 0)
            /\ hist' = Forget(b)
            /\ UNCHANGED <<books, borrows>>
       ELSE /\ Len(borrows) < MaxBorrows
            /\ books' = [ books EXCEPT ![b] = BorrowedBook(@, u, now) ]
            /\ borrows' = Append(borrows, NewBorrow(u, b, BorrowedBook(books[b], u, now)))
            /\ hist' = [ hist EXCEPT
                           ![b] = [ user |-> u, avail |-> books[b].availableCopies,
                                    returned |-> FALSE ] ]
            /\ last' = Resp("borrowBook", u, b, 200, MsgBorrowed, 0)
    /\ UNCHANGED <<nextBook, now, ticks, slots>>

returnBook(u, b) ==
    /\ IF b \notin DOMAIN books
       THEN /\ last' = Resp("returnBook", u, b, 404, MsgNotFound, 0)
            /\ hist' = Forget(b)
            /\ UNCHANGED <<books, borrows>>
       ELSE IF NotBorrower(books[b], u)
       THEN /\ last' = Resp("returnBook", u, b, 400, MsgNotBorrower, 0)
            /\ hist' = Forget(b)
            /\ UNCHANGED <<books, borrows>>
       ELSE LET fine == Fine(now, books[b].dueDate)
                open == OpenRecords(borrows, b, u)
            IN  /\ IF open = {}
                   THEN UNCHANGED borrows
                   ELSE \E i \in open :
                          /\ \A j \in open : i <= j
                          /\ borrows' = [ borrows EXCEPT
                                            ![i] = ClosedRecord(@, now, fine) ]
                /\ books' = [ books EXCEPT ![b] = ReturnedBook(@) ]
                /\ last' = Resp("returnBook", u, b, 200, MsgReturned, fine)
                /\ hist' = IF hist[b].user = u /\ ~hist[b].returned
                           THEN [ hist EXCEPT ![b].returned = TRUE ]
                           ELSE Forget(b)
    /\ UNCHANGED <<nextBook, now, ticks, slots>>

getUserHistory(u) ==
    /\ IF HistoryThrows(borrows, books, u)
       THEN last' = Resp("getUserHistory", u, 0, 500, MsgTypeError, 0)
       ELSE last' = Resp("getUserHistory", u, 0, 200, MsgOk,
                         Cardinality(UserRecords(borrows, u)))
    /\ UNCHANGED <<books, nextBook, borrows, now, ticks, hist, slots>>

NextABR ==
    \/ \E f \in BOOLEAN, a \in CopyInputs, t \in CopyInputs : addBook(f, a, t)
    \/ \E u \in Users, b \in BookIds : borrowBook(u, b)
    \/ \E u \in Users, b \in BookIds : returnBook(u, b)
    \/ \E d \in Deltas : Tick(d)

Next ==
    \/ \E f \in BOOLEAN, a \in CopyInputs, t \in CopyInputs : addBook(f, a, t)
    \/ \E b \in BookIds, a \in CopyInputs, t \in CopyInputs : updateBook(b, a, t)
    \/ \E b \in BookIds : deleteBook(b)
    \/ \E u \in Users, b \in BookIds : borrowBook(u, b)
    \/ \E u \in Users, b \in BookIds : returnBook(u, b)
    \/ \E u \in Users : getUserHistory(u)
    \/ \E d \in Deltas : Tick(d)

Spec == Init /\ [][Next]_vars

SpecABR == Init /\ [][NextABR]_vars

(***************************************************************************)
(* borrowBook and returnBook split at their awaits.  Each slot carries one *)
(* request from its first store read to its response; a slot is used once, *)
(* so MaxSlots is the number of requests whose steps interleave.           *)
(***************************************************************************)
Slots == 1..MaxSlots

\* book.save() of borrowBook and returnBook: the paths the handler assigned
SavedBook(stored, doc) ==
    [ stored EXCEPT
        !.status          = doc.status,
        !.borrower        = doc.borrower,
        !.borrowedAt      = doc.borrowedAt,
        !.dueDate         = doc.dueDate,
        !.availableCopies = doc.availableCopies ]

\* the slot once its handler has responded
Responded(slot, code, msg) ==
    [ slot EXCEPT !.pc = "done", !.code = code, !.msg = msg ]

\* await Book.findById(req.params.id), first line of both handlers
FindBook(p, op, u, b, found) ==
    /\ slots[p].pc = "idle"
    /\ slots' = [ slots EXCEPT ![p] =
                    IF b \in DOMAIN books
                    THEN [ @ EXCEPT !.pc = found, !.op = op, !.user = u,
                                    !.book = b, !.doc = books[b] ]
                    ELSE Responded([ @ EXCEPT !.op = op, !.user = u, !.book = b ],
                                   404, MsgNotFound) ]
    /\ UNCHANGED <<books, nextBook, borrows, now, ticks, last, hist>>

BorrowFind(p, u, b) == FindBook(p, "borrowBook", u, b, "b_found")

\* borrowBook from the availability check to the issue of both saves
BorrowCheck(p) ==
    /\ slots[p].pc = "b_found"
    /\ slots' = [ slots EXCEPT ![p] =
                    IF BorrowUnavailable(@.doc)
                    THEN Responded(@, 400, MsgUnavailable)
                    ELSE IF BorrowAlready(@.doc, @.user)
                    THEN Responded(@, 400, MsgAlready)
                    ELSE [ @ EXCEPT !.pc = "b_save",
                                    !.doc = BorrowedBook(slots[p].doc, slots[p].user, now) ] ]
    /\ UNCHANGED <<books, nextBook, borrows, now, ticks, last, hist>>

\* Promise.all: book.save() reaches the store
BorrowSaveBook(p) ==
    /\ slots[p].pc \in {"b_save", "b_save_book"}
    /\ slots[p].book \in DOMAIN books
    /\ books' = [ books EXCEPT ![slots[p].book] = SavedBook(@, slots[p].doc) ]
    /\ slots' = [ slots EXCEPT ![p] =
                    IF @.pc = "b_save"
                    THEN [ @ EXCEPT !.pc = "b_save_rec" ]
                    ELSE Responded(@, 200, MsgBorrowed) ]
    /\ UNCHANGED <<nextBook, borrows, now, ticks, last, hist>>

\* Promise.all: borrowRecord.save() reaches the store
BorrowSaveRecord(p) ==
    /\ slots[p].pc \in {"b_save", "b_save_rec"}
    /\ Len(borrows) < MaxBorrows
    /\ borrows' = Append(borrows, NewBorrow(slots[p].user, slots[p].book, slots[p].doc))
    /\ slots' = [ slots EXCEPT ![p] =
                    IF @.pc = "b_save"
                    THEN [ @ EXCEPT !.pc = "b_save_book" ]
                    ELSE Responded(@, 200, MsgBorrowed) ]
    /\ UNCHANGED <<books, nextBook, now, ticks, last, hist>>

ReturnFind(p, u, b) == FindBook(p, "returnBook", u, b, "r_found")

\* returnBook from the ownership check to the issue of Borrow.findOne
ReturnCheck(p) ==
    /\ slots[p].pc = "r_found"
    /\ slots' = [ slots EXCEPT ![p] =
                    IF NotBorrower(@.doc, @.user)
                    THEN Responded(@, 400, MsgNotBorrower)
                    ELSE [ @ EXCEPT !.pc = "r_findOne",
                                    !.currentDate = now,
                                    !.fine = Fine(now, slots[p].doc.dueDate) ] ]
    /\ UNCHANGED <<books, nextBook, borrows, now, ticks, last, hist>>

\* await Borrow.findOne({book, user, returnedAt: null}): the first match
ReturnFindOne(p) ==
    /\ slots[p].pc = "r_findOne"
    /\ LET open == OpenRecords(borrows, slots[p].book, slots[p].user)
       IN  IF open = {}
           THEN slots' = [ slots EXCEPT ![p] = [ @ EXCEPT !.pc = "r_save_book" ] ]
           ELSE \E i \in open :
                  /\ \A j \in open : i <= j
                  /\ slots' = [ slots EXCEPT ![p] =
                                  [ @ EXCEPT !.pc = "r_save_rec", !.rec = i ] ]
    /\ UNCHANGED <<books, nextBook, borrows, now, ticks, last, hist>>

\* await borrowRecord.save(): returnedAt and fine reach the store
ReturnSaveRecord(p) ==
    /\ slots[p].pc = "r_save_rec"
    /\ borrows' = [ borrows EXCEPT ![slots[p].rec] =
                      ClosedRecord(@, slots[p].currentDate, slots[p].fine) ]
    /\ slots' = [ slots EXCEPT ![p] = [ @ EXCEPT !.pc = "r_save_book" ] ]
    /\ UNCHANGED <<books, nextBook, now, ticks, last, hist>>

\* the Book reset and await book.save(), then the response
ReturnSaveBook(p) ==
    /\ slots[p].pc = "r_save_book"
    /\ slots[p].book \in DOMAIN books
    /\ books' = [ books EXCEPT ![slots[p].book] =
                    SavedBook(@, ReturnedBook(slots[p].doc)) ]
    /\ slots' = [ slots EXCEPT ![p] = Responded(@, 200, MsgReturned) ]
    /\ UNCHANGED <<nextBook, borrows, now, ticks, last, hist>>

NextConc ==
    \/ \E f \in BOOLEAN, a \in CopyInputs, t \in CopyInputs : addBook(f, a, t)
    \/ \E p \in Slots, u \in Users, b \in BookIds : BorrowFind(p, u, b)
    \/ \E p \in Slots : BorrowCheck(p)
    \/ \E p \in Slots : BorrowSaveBook(p)
    \/ \E p \in Slots : BorrowSaveRecord(p)
    \/ \E p \in Slots, u \in Users, b \in BookIds : ReturnFind(p, u, b)
    \/ \E p \in Slots : ReturnCheck(p)
    \/ \E p \in Slots : ReturnFindOne(p)
    \/ \E p \in Slots : ReturnSaveRecord(p)
    \/ \E p \in Slots : ReturnSaveBook(p)
    \/ \E d \in Deltas : Tick(d)

SpecConc == Init /\ [][NextConc]_vars

(***************************************************************************)
(* The properties.                                                         *)
(***************************************************************************)

\* the open Borrow records that reference book b, whoever the user
OpenOn(b) ==
    { i \in DOMAIN borrows : borrows[i].book = b /\ borrows[i].returnedAt = NullDate }

\* C1: after any sequence of addBook, borrowBook and returnBook requests, every
\* book has 0 <= availableCopies <= totalCopies.
CopiesWithinTotal ==
    \A b \in DOMAIN books :
        /\ 0 <= books[b].availableCopies
        /\ books[b].availableCopies <= books[b].totalCopies

\* C2: when u's borrowBook on a book succeeds and u's returnBook then succeeds with
\* no other request on the book in between, the book has the availableCopies it had
\* before the borrow, status 'Available', and borrower, borrowedAt and dueDate null.
BorrowThenReturnRestores ==
    \A b \in BookIds :
        hist[b].returned =>
            /\ b \in DOMAIN books
            /\ books[b].availableCopies = hist[b].avail
            /\ books[b].status = "Available"
            /\ books[b].borrower = Null
            /\ books[b].borrowedAt = NullDate
            /\ books[b].dueDate = NullDate

\* C2 witness: a borrow, then the borrower's return, has just completed on a book
BorrowThenReturnDone ==
    \E b \in BookIds :
        /\ hist[b].returned
        /\ hist[b].user \in Users
        /\ last.op = "returnBook" /\ last.book = b /\ last.code = 200

\* C3: borrowBook on an existing book with availableCopies = 0 or status 'Borrowed'
\* answers 400 'Book is currently unavailable' and changes neither the Book
\* collection nor the Borrow collection, whoever asks.
UnavailableBorrowRejected ==
    [][ \A u \in Users, b \in BookIds :
          ( /\ borrowBook(u, b)
            /\ b \in DOMAIN books
            /\ (books[b].availableCopies = 0 \/ books[b].status = "Borrowed") )
          => ( /\ last'.code = 400
               /\ last'.msg = MsgUnavailable
               /\ books' = books
               /\ borrows' = borrows ) ]_vars

\* C3 witness: a borrow of a book with no copy left, not marked Borrowed, was refused
UnavailableBorrowSeen ==
    /\ last.op = "borrowBook"
    /\ last.msg = MsgUnavailable
    /\ last.book \in DOMAIN books
    /\ books[last.book].availableCopies = 0
    /\ books[last.book].status = "Available"

\* C4: borrowBook by the user recorded as the book's borrower answers
\* 400 'You have already borrowed this book' and changes no Book or Borrow record.
DoubleBorrowAlreadyBorrowed ==
    [][ \A u \in Users, b \in BookIds :
          ( /\ borrowBook(u, b)
            /\ b \in DOMAIN books
            /\ books[b].borrower = u )
          => ( /\ last'.code = 400
               /\ last'.msg = MsgAlready
               /\ books' = books
               /\ borrows' = borrows ) ]_vars

\* C5: returnBook on an existing book by a user who is not its recorded borrower
\* (also when it has none) answers 400 'You did not borrow this book' and changes
\* no Book or Borrow record.
ForeignReturnRejected ==
    [][ \A u \in Users, b \in BookIds :
          ( /\ returnBook(u, b)
            /\ b \in DOMAIN books
            /\ books[b].borrower # u )
          => ( /\ last'.code = 400
               /\ last'.msg = MsgNotBorrower
               /\ books' = books
               /\ borrows' = borrows ) ]_vars

\* C5 witness: a return by a user other than the one holding the book was refused
ForeignReturnSeen ==
    /\ last.op = "returnBook"
    /\ last.msg = MsgNotBorrower
    /\ last.book \in DOMAIN books
    /\ books[last.book].borrower \in Users \ {last.user}

\* the fine the policy asks for: 5 per started day after dueDate
ExpectedFine(t, due) ==
    IF t <= due
    THEN 0
    ELSE 5 * (CHOOSE k \in 1..((t - due) \div DaySec + 1) :
                (k - 1) * DaySec < t - due /\ t - due <= k * DaySec)

\* C6: every successful returnBook writes to the Borrow record it closes, and
\* reports, the fine 0 when now <= dueDate and 5 * ceil((now - dueDate) / one day)
\* otherwise: 0 exactly at dueDate, 5 one second after, 50 exactly 10 days after.
FineOnReturn ==
    [][ \A u \in Users, b \in BookIds :
          (returnBook(u, b) /\ last'.code = 200)
          => LET due == books[b].dueDate
             IN  /\ last'.val = ExpectedFine(now, due)
                 /\ \E i \in OpenRecords(borrows, b, u) :
                      /\ borrows'[i].returnedAt = now
                      /\ borrows'[i].fine = ExpectedFine(now, due)
                 /\ (now = due => last'.val = 0)
                 /\ (now = due + 1 => last'.val = 5)
                 /\ (now = due + 10 * DaySec => last'.val = 50) ]_vars

\* C6 witness: a book was returned exactly 10 days after its due date, fine 50
TenDaysLateReturned ==
    /\ last.op = "returnBook" /\ last.code = 200 /\ last.val = 50
    /\ \E i \in DOMAIN borrows :
         /\ borrows[i].returnedAt = borrows[i].dueDate + 10 * DaySec
         /\ borrows[i].returnedAt = now
         /\ borrows[i].fine = 50

\* C7: in every reachable state, also when the store reads and writes of
\* borrowBook and returnBook requests interleave, each (user, book) pair has at
\* most one Borrow record with returnedAt = null.
AtMostOneOpenPerPair ==
    \A u \in Users, b \in BookIds :
        Cardinality(OpenRecords(borrows, b, u)) <= 1

\* C8: getUserHistory for a user one of whose Borrow records references a deleted
\* book answers 200 with one entry per Borrow record of the user, the records
\* still being there.
HistoryAfterDelete ==
    [][ \A u \in Users :
          ( /\ getUserHistory(u)
            /\ \E i \in UserRecords(borrows, u) : borrows[i].book \notin DOMAIN books )
          => ( /\ last'.code = 200
               /\ last'.val = Cardinality(UserRecords(borrows, u))
               /\ borrows' = borrows ) ]_vars

\* two borrowBook requests by different users for the same book have both
\* answered 200, and no other request of the run names the book
BothBorrowed(p, q) ==
    /\ p # q
    /\ slots[p].op = "borrowBook" /\ slots[q].op = "borrowBook"
    /\ slots[p].book = slots[q].book
    /\ slots[p].user # slots[q].user
    /\ slots[p].pc = "done" /\ slots[p].code = 200
    /\ slots[q].pc = "done" /\ slots[q].code = 200
    /\ \A r \in Slots \ {p, q} : slots[r].pc = "idle" \/ slots[r].book # slots[p].book

\* C9: the availability check and the decrement are not atomic: two borrowBook
\* requests by different users that both read the same available book before either
\* saves it both succeed, and they leave an open Borrow record for each of the two
\* users while the Book records one borrower and one decrement.
RaceBothSucceed ==
    \A p \in Slots, q \in Slots :
        BothBorrowed(p, q) =>
            LET b == slots[p].book
            IN  /\ b \in DOMAIN books
                /\ OpenRecords(borrows, b, slots[p].user) # {}
                /\ OpenRecords(borrows, b, slots[q].user) # {}
                /\ Cardinality(OpenOn(b)) = 2
                /\ books[b].status = "Borrowed"
                /\ books[b].borrower \in {slots[p].user, slots[q].user}
                /\ slots[p].doc.availableCopies = slots[q].doc.availableCopies
                /\ books[b].availableCopies = slots[p].doc.availableCopies

\* C9 witness: both requests of such a pair have answered 200
RaceReached ==
    \E p \in Slots, q \in Slots : BothBorrowed(p, q)

\* C10: with requests handled one at a time, for every existing book: borrower is
\* a user iff status = 'Borrowed' iff exactly one open Borrow record references the
\* book, that record is the borrower's, and with no borrower no open record
\* references the book.
LedgerAgrees ==
    \A b \in DOMAIN books :
        /\ books[b].borrower # Null <=> books[b].status = "Borrowed"
        /\ books[b].status = "Borrowed" <=> Cardinality(OpenOn(b)) = 1
        /\ books[b].borrower # Null =>
              \A i \in OpenOn(b) : borrows[i].user = books[b].borrower
        /\ books[b].borrower = Null => OpenOn(b) = {}

\* C10 witness: a borrowed book, with its open record, has just been updated
BorrowedBookUpdated ==
    /\ last.op = "updateBook" /\ last.code = 200
    /\ last.book \in DOMAIN books
    /\ books[last.book].borrower \in Users
    /\ Cardinality(OpenOn(last.book)) = 1

=============================================================================
